---- MODULE Spec2Model ----
(***************************************************************************)
(* A model of tabular_toolbox/dask_ex.py: the SafeOrdinalEncoder           *)
(* (fit / transform / inverse_transform over eager and partitioned         *)
(* tables), the metadata repair and concatenation helpers, and the         *)
(* intercept / cache transformers.                                         *)
(*                                                                         *)
(* Representation.  A raw cell is an integer: 0 is a missing value (NaN or *)
(* None in the table), 1..MaxVal are the distinct category values, ordered *)
(* as pandas orders them.  A code cell is a float64; floats are kept as    *)
(* fixed point numbers with one binary digit (the integer 2*x stands for   *)
(* x), so that int(x) truncates.  A table is a record of its backend       *)
(* ("eager" for pandas, "dask" for dask.dataframe), its column sequence    *)
(* and its partitions (an eager table has exactly one); a partition is a   *)
(* sequence of rows, a row a sequence of cells aligned with the columns.   *)
(***************************************************************************)
EXTENDS Integers, Sequences, FiniteSets, TLC

\* Bounds of the model.
MaxVal == 2
MaxRows == 2
MaxInputs == 2
MaxChunks == 2

\* The markers make_decoder returns for a code outside the vocabulary.
NaN == -2
MinusOne == -1
NoneValue == -3

ColNames == {"a", "b"}
ColumnSeqs == {<<"a">>, <<"b">>, <<"a", "b">>, <<"b", "a">>}
\* numpy dtypes of the fitted columns (pandas extension dtypes are not
\* enumerated).
ADTypes == {"object", "float64", "int64", "int16"}
\* Column "a" holds any of the values, column "b" one value; both may miss.
RawCells == [c \in ColNames |-> IF c = "a" THEN 0..MaxVal ELSE {0, 1}]

VARIABLES enc, call, be, cache, hook, imp

vars == <<enc, call, be, cache, hook, imp>>

---------------------------------------------------------------------------
\* Generic helpers.

Range(s) == {s[i] : i \in DOMAIN s}

SeqsUpTo(S, n) == UNION {[1..k -> S] : k \in 1..n}

RECURSIVE SortedSeq(_)
SortedSeq(S) ==
    IF S = {} THEN <<>>
    ELSE LET m == CHOOSE x \in S : \A y \in S : x <= y
         IN <<m>> \o SortedSeq(S \ {m})

RECURSIVE Flatten(_)
Flatten(ss) == IF ss = <<>> THEN <<>> ELSE Head(ss) \o Flatten(Tail(ss))

\* The positions of the first occurrences, in order: pandas' unique().
RECURSIVE Unique(_)
Unique(s) ==
    IF s = <<>> THEN <<>>
    ELSE LET r == Unique(SubSeq(s, 1, Len(s) - 1))
             x == s[Len(s)]
         IN IF x \in Range(r) THEN r ELSE Append(r, x)

\* The partitions of a row sequence cut after the positions in cut.
Split(flat, cut) ==
    LET bs == SortedSeq(cut \cup {Len(flat)})
    IN [i \in 1..Len(bs) |->
          SubSeq(flat, (IF i = 1 THEN 0 ELSE bs[i - 1]) + 1, bs[i])]

ColIdx(cols, c) == CHOOSE i \in DOMAIN cols : cols[i] = c

NoTable == [backend |-> "none", columns |-> <<>>, parts |-> <<>>]

\* Every table of at most maxRows rows whose column c holds cells of C[c]:
\* an eager one, and a partitioned one for each way of cutting its rows into
\* partitions.
RowsOver(C, cols) == {r \in [1..Len(cols) -> UNION {C[c] : c \in ColNames}] :
                        \A j \in 1..Len(cols) : r[j] \in C[cols[j]]}

TablesOver(C, maxRows) ==
    UNION {
      UNION {
        {[backend |-> "eager", columns |-> cols, parts |-> <<flat>>]}
        \cup {[backend |-> "dask", columns |-> cols, parts |-> Split(flat, cut)]
                : cut \in SUBSET (1..(Len(flat) - 1))}
        : flat \in SeqsUpTo(RowsOver(C, cols), maxRows)}
      : cols \in ColumnSeqs}

Rows(X) == Flatten(X.parts)

Column(X, c) == LET j == ColIdx(X.columns, c)
                    rs == Rows(X)
                IN [i \in 1..Len(rs) |-> rs[i][j]]

---------------------------------------------------------------------------
\* Backend classifier and metadata repair.
\*
\* A dataset is a record of its kind (pd_df, pd_series, np_array for the
\* eager types; dd_df, dd_series, da_array for the dask types), the name of
\* its index ("" for an unnamed one), its columns (for a series: its name),
\* whether its divisions are known, and for an array the lengths of its
\* chunks along the rows: lens are the lengths the data has, chunks what the
\* metadata says of them, NaNLen where the length is unknown.

NaNLen == -1

Frame(kind, index, cols, known) ==
    [kind |-> kind, index |-> index, cols |-> cols, known |-> known,
     chunks |-> <<>>, lens |-> <<>>]
Array(kind, chunks, lens) ==
    [kind |-> kind, index |-> "", cols |-> <<>>, known |-> TRUE,
     chunks |-> chunks, lens |-> lens]

is_dask_dataframe(X) == X.kind = "dd_df"
is_dask_series(X) == X.kind = "dd_series"
is_dask_array(X) == X.kind = "da_array"
is_dask_object(X) == X.kind \in {"da_array", "dd_df", "dd_series"}
exist_dask_dataframe(args) == \E i \in DOMAIN args : args[i].kind = "dd_df"
exist_dask_object(args) == \E i \in DOMAIN args : is_dask_object(args[i])

\* to_dask_type: da.from_array(X) for an ndarray, dd.from_pandas(X,
\* npartitions=1) for a pandas table or series, X itself otherwise.
to_dask_type(X) ==
    IF X.kind = "np_array" THEN [X EXCEPT !.kind = "da_array"]
    ELSE IF X.kind = "pd_df" THEN [X EXCEPT !.kind = "dd_df", !.known = TRUE]
    ELSE IF X.kind = "pd_series" THEN [X EXCEPT !.kind = "dd_series", !.known = TRUE]
    ELSE X

ChunksKnown(a) == \A i \in DOMAIN a.chunks : a.chunks[i] # NaNLen
\* known_divisions of a table or series, known chunk sizes of an array.
MetadataKnown(X) == IF is_dask_array(X) THEN ChunksKnown(X) ELSE X.known

\* The result of a repair: the dataset returned, the exception raised and
\* the numbers of compute_chunk_sizes and reset_index calls made.
Repaired(X, exc, computes, resets) ==
    [obj |-> X, exc |-> exc, computes |-> computes, resets |-> resets]

\* a.compute_chunk_sizes()
ComputeNoChunkSizes(a) == a
ComputeChunkSizes(a) == [a EXCEPT !.chunks = a.lens]

make_chunk_size_known(a) ==
    IF ~is_dask_array(a) THEN Repaired(a, "AssertionError", 0, 0)
    ELSE IF \E i \in DOMAIN a.chunks : a.chunks[i] = NaNLen
    THEN Repaired(ComputeChunkSizes(a), "", 1, 0)
    ELSE Repaired(a, "", 0, 0)

\* X.reset_index(): the index becomes the first column, named after the
\* index, or "index" (or "level_0" when there is a column "index") for an
\* unnamed index; the new index is unnamed and the divisions are unknown.
ResetIndex(X) ==
    LET name == IF X.index # "" THEN X.index
                ELSE IF "index" \notin Range(X.cols) THEN "index"
                ELSE "level_0"
    IN [X EXCEPT !.index = "", !.cols = <<name>> \o X.cols, !.known = FALSE]

\* X.set_index(c): the column c becomes the index; dask sorts the rows by it
\* and computes the divisions.
SetIndex(X, c) ==
    LET keep(d) == d # c
    IN [X EXCEPT !.index = c, !.cols = SelectSeq(X.cols, keep), !.known = TRUE]

\* The dask_dataframe branch of make_divisions_known, with its closing
\* assert X.known_divisions.
RepairFrame(X) ==
    IF X.known THEN Repaired(X, "", 0, 0)
    ELSE LET columns == X.cols
             R == ResetIndex(X)
             new_columns == R.cols
             index_name == Range(new_columns) \ Range(columns)
             key == IF index_name # {} THEN CHOOSE c \in index_name : TRUE
                    ELSE "index"
         IN IF key \notin Range(new_columns) THEN Repaired(R, "KeyError", 0, 1)
            ELSE LET Y == SetIndex(R, key)
                 IN Repaired(Y, IF Y.known THEN "" ELSE "AssertionError", 0, 1)

make_divisions_known(X) ==
    IF ~is_dask_object(X) THEN Repaired(X, "AssertionError", 0, 0)
    ELSE IF is_dask_dataframe(X) THEN RepairFrame(X)
    ELSE IF is_dask_series(X)
    THEN IF X.known THEN Repaired(X, "", 0, 0)
         ELSE \* make_divisions_known(X.to_frame())[X.name]
              LET r == RepairFrame([X EXCEPT !.kind = "dd_df"])
              IN [r EXCEPT !.obj = [r.obj EXCEPT !.kind = "dd_series"]]
    ELSE make_chunk_size_known(X)

\* The list comprehension [repair(x) for x in xs], given the result rs[i] of
\* each repair: the repaired datasets, the work done, and the exception of
\* the first repair that raises, which ends the comprehension.
RECURSIVE RepairAll(_)
RepairAll(rs) ==
    IF rs = <<>> THEN [objs |-> <<>>, exc |-> "", computes |-> 0, resets |-> 0]
    ELSE LET r == Head(rs)
         IN IF r.exc # ""
            THEN [objs |-> <<>>, exc |-> r.exc, computes |-> r.computes,
                  resets |-> r.resets]
            ELSE LET rest == RepairAll(Tail(rs))
                 IN [objs |-> IF rest.exc = "" THEN <<r.obj>> \o rest.objs ELSE <<>>,
                     exc |-> rest.exc,
                     computes |-> r.computes + rest.computes,
                     resets |-> r.resets + rest.resets]

FrameKinds == {"pd_df", "pd_series", "dd_df", "dd_series"}
EagerKinds == {"pd_df", "pd_series", "np_array"}
AllOf(args, kinds) == \A i \in DOMAIN args : args[i].kind \in kinds

\* The backends' primitives are not part of this code: each is modelled by
\* the set of outcomes it can have for the kinds of its arguments ("dask":
\* a partitioned result, "eager": an eager result, "error": it raises).
\* dd.concat builds a dask table from tables and series, pandas or dask.
DdConcat(dfs) ==
    IF AllOf(dfs, FrameKinds) THEN {"dask"} ELSE {"dask", "error"}
\* pd.concat accepts pandas tables and series only.
PdConcat(dfs) ==
    IF AllOf(dfs, {"pd_df", "pd_series"}) THEN {"eager"} ELSE {"error"}
\* dask_ml's splitter splits dask tables and series, or dask arrays.
DmSplit(data) ==
    IF AllOf(data, {"dd_df", "dd_series"}) \/ AllOf(data, {"da_array"})
    THEN {"dask"} ELSE {"dask", "eager", "error"}
\* scikit-learn's splitter is written for eager data.
SkSplit(data) ==
    IF AllOf(data, EagerKinds) THEN {"eager"} ELSE {"dask", "eager", "error"}

NoPrim == [name |-> "none", args |-> <<>>]
NoBackendCall ==
    [op |-> "none", args |-> <<>>, axis |-> 0, repartition |-> FALSE,
     results |-> <<>>, computes |-> <<>>, resets |-> <<>>,
     prim |-> NoPrim, res |-> "none", exc |-> ""]

\* da.hstack and da.vstack build a dask array from dask arrays; what they
\* make of anything else, or of chunks of unknown size, is not decided here.
DaStack(arrs) ==
    IF arrs = <<>> THEN {"error"}
    ELSE IF AllOf(arrs, {"da_array"}) /\ \A i \in DOMAIN arrs : ChunksKnown(arrs[i])
    THEN {"dask"} ELSE {"dask", "error"}

\* if len(arrs) > 1: arrs = [make_chunk_size_known(a) for a in arrs]
StackInputsAsGiven(arrs) ==
    [objs |-> arrs, exc |-> "", computes |-> 0, resets |-> 0]

StackInputs(arrs) ==
    IF Len(arrs) > 1
    THEN RepairAll([i \in DOMAIN arrs |-> make_chunk_size_known(arrs[i])])
    ELSE [objs |-> arrs, exc |-> "", computes |-> 0, resets |-> 0]

\* hstack_array(arrs) and vstack_array(arrs): the call as it ends when the
\* primitive it invokes has the outcome o.
StackArray(b, name, prim, o) ==
    LET r == StackInputs(b.args)
        w == [b EXCEPT !.op = name, !.computes = <<r.computes>>,
                       !.resets = <<r.resets>>]
    IN IF r.exc # "" THEN [w EXCEPT !.exc = r.exc]
       ELSE LET c == [w EXCEPT !.results = r.objs,
                               !.prim = [name |-> prim, args |-> r.objs]]
            IN IF o = "error" THEN [c EXCEPT !.exc = "Error"] ELSE [c EXCEPT !.res = o]

hstack_array(b, o) == StackArray(b, "hstack_array", "da.hstack", o)
vstack_array(b, o) == StackArray(b, "vstack_array", "da.vstack", o)

\* The outcomes the stack primitive can have for the arrays it is given.
stack_outcomes(b) ==
    LET r == StackInputs(b.args)
    IN IF r.exc # "" THEN {"error"} ELSE DaStack(r.objs)

\* concat_df(dfs, axis, repartition): the call as it ends when the primitive
\* it invokes has the outcome o.
concat_df(b, o) ==
    LET dfs == b.args
        done == [b EXCEPT !.op = "concat_df"]
    IN IF exist_dask_dataframe(dfs)
       THEN LET r == IF b.axis = 1 THEN RepairAll([i \in DOMAIN dfs |-> make_divisions_known(dfs[i])])
                     ELSE [objs |-> dfs, exc |-> "", computes |-> 0, resets |-> 0]
                w == [done EXCEPT !.computes = <<r.computes>>, !.resets = <<r.resets>>]
            IN IF r.exc # "" THEN [w EXCEPT !.exc = r.exc]
               ELSE LET c == [w EXCEPT !.results = r.objs,
                                       !.prim = [name |-> "dd.concat", args |-> r.objs]]
                    IN IF o = "error" THEN [c EXCEPT !.exc = "Error"]
                       \* df.repartition(npartitions=dfs[0].npartitions)
                       ELSE IF b.repartition /\ ~is_dask_object(r.objs[1])
                       THEN [c EXCEPT !.exc = "AttributeError"]
                       ELSE [c EXCEPT !.res = o]
       ELSE LET c == [done EXCEPT !.prim = [name |-> "pd.concat", args |-> dfs]]
            IN IF o = "error" THEN [c EXCEPT !.exc = "Error"] ELSE [c EXCEPT !.res = o]

concat_df_outcomes(b) ==
    IF exist_dask_dataframe(b.args) THEN DdConcat(b.args) ELSE PdConcat(b.args)

\* train_test_split(*data): likewise.
train_test_split(b, o) ==
    LET data == b.args
        done == [b EXCEPT !.op = "train_test_split"]
    IN IF exist_dask_dataframe(data)
       THEN LET r == IF Len(data) > 1
                     THEN RepairAll([i \in DOMAIN data |->
                                       make_divisions_known(to_dask_type(data[i]))])
                     ELSE [objs |-> data, exc |-> "", computes |-> 0, resets |-> 0]
                w == [done EXCEPT !.computes = <<r.computes>>, !.resets = <<r.resets>>]
            IN IF r.exc # "" THEN [w EXCEPT !.exc = r.exc]
               ELSE LET c == [w EXCEPT !.results = r.objs,
                                       !.prim = [name |-> "dm_sel.train_test_split",
                                                 args |-> r.objs]]
                    IN IF o = "error" THEN [c EXCEPT !.exc = "Error"]
                       ELSE [c EXCEPT !.res = o]
       ELSE LET c == [done EXCEPT !.prim = [name |-> "sk_sel.train_test_split",
                                            args |-> data]]
            IN IF o = "error" THEN [c EXCEPT !.exc = "Error"] ELSE [c EXCEPT !.res = o]

train_test_split_outcomes(b) ==
    IF exist_dask_dataframe(b.args)
    THEN DmSplit(IF Len(b.args) > 1 THEN [i \in DOMAIN b.args |-> to_dask_type(b.args[i])]
                 ELSE b.args)
    ELSE SkSplit(b.args)

\* The datasets the helpers are driven with.
ChunkLens(k) == [i \in 1..k |-> i]
DaskArrays ==
    UNION {{Array("da_array", [i \in 1..k |-> IF i \in U THEN NaNLen ELSE i], ChunkLens(k))
              : U \in SUBSET (1..k)} : k \in 1..MaxChunks}
DaskFrames ==
    {Frame("dd_df", ix, cols, kn) :
       ix \in {"", "id"}, cols \in {<<"x">>, <<"index", "x">>}, kn \in BOOLEAN}
    \cup {Frame("dd_series", "", <<"y">>, kn) : kn \in BOOLEAN}
EagerDatasets ==
    {Frame("pd_df", "", <<"x">>, TRUE), Frame("pd_series", "", <<"y">>, TRUE),
     Array("np_array", ChunkLens(1), ChunkLens(1))}
Datasets == DaskArrays \cup DaskFrames \cup EagerDatasets

\* The call record after one more repair with the result r.
Record(b, name, r) ==
    [b EXCEPT !.op = name, !.results = Append(@, r.obj),
              !.computes = Append(@, r.computes), !.resets = Append(@, r.resets),
              !.exc = r.exc]

\* make_chunk_size_known(a) on a dataset, and once more on what it returned.
MakeChunkSizeKnown ==
    /\ be.op = "none" /\ Len(be.args) = 1
    /\ be' = Record(be, "make_chunk_size_known", make_chunk_size_known(be.args[1]))
    /\ UNCHANGED <<enc, call, cache, hook, imp>>

MakeChunkSizeKnownAgain ==
    /\ be.op = "make_chunk_size_known" /\ be.exc = "" /\ Len(be.results) = 1
    /\ be' = Record(be, "make_chunk_size_known", make_chunk_size_known(be.results[1]))
    /\ UNCHANGED <<enc, call, cache, hook, imp>>

\* make_divisions_known(X) on a dataset, and once more on what it returned.
MakeDivisionsKnown ==
    /\ be.op = "none" /\ Len(be.args) = 1
    /\ be' = Record(be, "make_divisions_known", make_divisions_known(be.args[1]))
    /\ UNCHANGED <<enc, call, cache, hook, imp>>

MakeDivisionsKnownAgain ==
    /\ be.op = "make_divisions_known" /\ be.exc = "" /\ Len(be.results) = 1
    /\ be' = Record(be, "make_divisions_known", make_divisions_known(be.results[1]))
    /\ UNCHANGED <<enc, call, cache, hook, imp>>

ConcatDf ==
    /\ be.op = "none"
    /\ \E o \in concat_df_outcomes(be) : be' = concat_df(be, o)
    /\ UNCHANGED <<enc, call, cache, hook, imp>>

TrainTestSplit ==
    /\ be.op = "none"
    /\ \E o \in train_test_split_outcomes(be) : be' = train_test_split(be, o)
    /\ UNCHANGED <<enc, call, cache, hook, imp>>

HstackArray ==
    /\ be.op = "none"
    /\ \E o \in stack_outcomes(be) : be' = hstack_array(be, o)
    /\ UNCHANGED <<enc, call, cache, hook, imp>>

VstackArray ==
    /\ be.op = "none"
    /\ \E o \in stack_outcomes(be) : be' = vstack_array(be, o)
    /\ UNCHANGED <<enc, call, cache, hook, imp>>

---------------------------------------------------------------------------
\* SafeOrdinalEncoder.

\* float64 values are kept in halves: ToFloat is dtype(n) of an integer n
\* for the default dtype np.float64 (exact for every integer below 2^53),
\* IntOf is Python's int(x), which truncates towards zero.
ToFloat(n) == 2 * n
IntOf(x) == IF x >= 0 THEN x \div 2 ELSE -((-x) \div 2)

NoColumns == [isNone |-> TRUE, names |-> <<>>]
NoMsg == [got |-> <<>>, expected |-> NoColumns]

\* __init__: the parameters are stored, nothing is fitted.
NewEncoder(columns, dtype) ==
    [columns |-> columns, dtype |-> dtype, stage |-> "new",
     columns_ |-> <<>>, dtypes_ |-> <<>>,
     categorical_columns_ |-> <<>>, non_categorical_columns_ |-> <<>>,
     categories_ |-> <<>>]

\* X.select_dtypes(include=["category", "object"]).columns
SelectDtypes(X, dt) ==
    LET keep(c) == dt[c] \in {"category", "object"}
    IN SelectSeq(X.columns, keep)

\* Index.drop: the columns of cols that are not in dropped, in order.
DropColumns(cols, dropped) ==
    LET keep(c) == c \notin Range(dropped)
    IN SelectSeq(cols, keep)

\* X.categorize(columns)[c].cat.categories of a partitioned table: the
\* distinct non-missing values of the column, in the order in which the
\* partitions deliver them.
Categories(X, c) ==
    LET present(v) == v # 0
    IN Unique(SelectSeq(Column(X, c), present))

\* Index.sort_values()
SortValues(cat) == SortedSeq(Range(cat))

\* fit.  The result is the encoder as fit leaves it and the exception it
\* raises ("" for none).  columns_ and dtypes_ are assigned before
\* X.categorize is called; pandas.DataFrame has no categorize method, so an
\* eager table ends fit there, and dask raises KeyError for a column that is
\* not in the table.
FitResult(e, X, dt) ==
    LET e1 == [e EXCEPT !.stage = "partial",
                        !.columns_ = X.columns,
                        !.dtypes_ = [c \in Range(X.columns) |-> dt[c]]]
        columns == IF e.columns.isNone THEN SelectDtypes(X, dt)
                   ELSE e.columns.names
    IN IF X.backend = "eager"
       THEN [enc |-> e1, exc |-> "AttributeError"]
       ELSE IF \E c \in Range(columns) : c \notin Range(X.columns)
       THEN [enc |-> e1, exc |-> "KeyError"]
       ELSE [enc |-> [e1 EXCEPT
                        !.stage = "fitted",
                        !.categorical_columns_ = columns,
                        !.non_categorical_columns_ = DropColumns(X.columns, columns),
                        !.categories_ = [c \in Range(columns) |->
                                           SortValues(Categories(X, c))]],
             exc |-> ""]

\* make_encoder: the mapping of one column, a defaultdict(dtype) filled by
\* m[k] = dtype(v + 1) for k, v in zip(cat, range(len(cat))).
\* (cat[i] is the element zip pairs with v = i - 1.)
MappingFromZero(cat) ==
    [k \in Range(cat) |->
       LET i == CHOOSE i \in DOMAIN cat :
                  cat[i] = k /\ \A j \in DOMAIN cat : cat[j] = k => j <= i
           v == i - 1
       IN ToFloat(v)]

Mapping(cat) ==
    [k \in Range(cat) |->
       LET i == CHOOSE i \in DOMAIN cat :
                  cat[i] = k /\ \A j \in DOMAIN cat : cat[j] = k => j <= i
           v == i - 1
       IN ToFloat(v + 1)]

\* encode_column: mappings[c][x]; a missing key yields dtype(), that is 0.0.
EncodeColumn(m, x) == IF x \in DOMAIN m THEN m[x] ELSE ToFloat(0)

\* safe_ordinal_encoder(pdf): a copy of the partition with every categorical
\* column replaced by its codes.
SafeOrdinalEncoderFn(columns, categories, cols, pdf) ==
    [i \in 1..Len(pdf) |->
       [j \in 1..Len(cols) |->
          IF cols[j] \in Range(columns)
          THEN EncodeColumn(Mapping(categories[cols[j]]), pdf[i][j])
          ELSE pdf[i][j]]]

\* Index.equals: the same labels in the same order.
ColumnsEqualAsSets(a, b) == Range(a) = Range(b)
ColumnsEqual(a, b) == a = b

\* transform.  The result is the returned table, the exception and, for the
\* ValueError, the two values its message is formatted with.
TransformResult(e, X) ==
    IF e.stage = "new"
    THEN [out |-> NoTable, exc |-> "AttributeError", msg |-> NoMsg]
    ELSE IF ~ColumnsEqual(X.columns, e.columns_)
    THEN [out |-> NoTable, exc |-> "ValueError",
          msg |-> [got |-> X.columns, expected |-> e.columns]]
    ELSE IF e.stage = "partial"
    THEN [out |-> NoTable, exc |-> "AttributeError", msg |-> NoMsg]
    ELSE [out |-> [X EXCEPT !.parts =
                     [p \in 1..Len(X.parts) |->
                        SafeOrdinalEncoderFn(e.categorical_columns_, e.categories_,
                                             X.columns, X.parts[p])]],
          exc |-> "", msg |-> NoMsg]

FloatDTypes == {"float16", "float32", "float64"}
IntDTypes == {"int8", "int16", "int32", "int64"}

\* decode_column: the value at the 1-based position int(x) of the column's
\* vocabulary, or the marker chosen by the dtype recorded at fit time; the
\* two tuples of the code name float32, float64 and np.float (float64), and
\* int32, int64, np.int (int64), uint32, uint64 and np.uint (uint64).
DecodeColumn(cat, dtype, x) ==
    LET xi == IntOf(x)
        unseen == Len(cat)
    IN IF unseen >= xi /\ xi >= 1
       THEN cat[(xi - 1) + 1]
       ELSE IF dtype \in {"float32", "float64"} THEN NaN
       ELSE IF dtype \in {"int32", "int64", "uint32", "uint64"} THEN MinusOne
       ELSE NoneValue

\* np.vectorize(..., otypes=[dtypes[col]]) converts what decode_column
\* returned to the column's dtype: None becomes NaN in a float array and
\* cannot be converted (TypeError) in an integer array.
CastRaises(v, dtype) == v = NoneValue /\ dtype \in IntDTypes
Cast(v, dtype) == IF v = NoneValue /\ dtype \in FloatDTypes THEN NaN ELSE v

\* safe_ordinal_decoder(pdf): a copy of the partition with every categorical
\* column replaced by its decoded values.
SafeOrdinalDecoderFn(columns, categories, dtypes, cols, pdf) ==
    [i \in 1..Len(pdf) |->
       [j \in 1..Len(cols) |->
          IF cols[j] \in Range(columns)
          THEN Cast(DecodeColumn(categories[cols[j]], dtypes[cols[j]], pdf[i][j]),
                    dtypes[cols[j]])
          ELSE pdf[i][j]]]

DecoderRaises(columns, categories, dtypes, cols, pdf) ==
    \E i \in 1..Len(pdf) : \E j \in 1..Len(cols) :
       /\ cols[j] \in Range(columns)
       /\ CastRaises(DecodeColumn(categories[cols[j]], dtypes[cols[j]], pdf[i][j]),
                     dtypes[cols[j]])

IsArray(X) == X.backend \in {"numpy", "dask_array"}
Width(X) == Len(Rows(X)[1])

\* inverse_transform.  An array is first made a table with the fitted
\* columns (its chunk lengths, when unknown, are computed first, which does
\* not change its rows); then the decoder is applied to the table or to each
\* of its partitions.
InverseResult(e, X) ==
    LET bad(x) == [out |-> NoTable, exc |-> x]
        F == IF IsArray(X)
             THEN [backend |-> IF X.backend = "numpy" THEN "eager" ELSE "dask",
                   columns |-> e.columns_, parts |-> X.parts]
             ELSE X
    IN IF IsArray(X) /\ e.stage = "new" THEN bad("AttributeError")
       ELSE IF IsArray(X) /\ Width(X) # Len(e.columns_) THEN bad("ValueError")
       ELSE IF e.stage # "fitted" THEN bad("AttributeError")
       ELSE IF \E c \in Range(e.categorical_columns_) : c \notin Range(F.columns)
       THEN bad("KeyError")
       ELSE IF \E p \in 1..Len(F.parts) :
                  DecoderRaises(e.categorical_columns_, e.categories_, e.dtypes_,
                                F.columns, F.parts[p])
       THEN bad("TypeError")
       ELSE [out |-> [F EXCEPT !.parts =
                        [p \in 1..Len(F.parts) |->
                           SafeOrdinalDecoderFn(e.categorical_columns_, e.categories_,
                                                e.dtypes_, F.columns, F.parts[p])]],
             exc |-> ""]

\* The inputs the encoder is driven with.
CtorColumns == {NoColumns, [isNone |-> FALSE, names |-> <<"a">>],
                [isNone |-> FALSE, names |-> <<"a", "b">>]}
RawTables == TablesOver(RawCells, MaxRows)
\* Column "a" of any of the dtypes beside a float64 column "b", and an object
\* column "a" beside an int16 column "b".
DTypeMaps == {[c \in ColNames |-> IF c = "a" THEN da ELSE "float64"] : da \in ADTypes}
             \cup {[c \in ColNames |-> IF c = "a" THEN "object" ELSE "int16"]}
\* Codes from -1.0 to MaxVal + 1.0 in steps of one half.
CodeCells == [c \in ColNames |-> IF c = "a" THEN ToFloat(-1)..ToFloat(MaxVal + 1)
                                 ELSE {ToFloat(0), ToFloat(1)}]
CodeTables == LET T == TablesOver(CodeCells, 1)
              IN T \cup {[t EXCEPT !.backend = IF t.backend = "eager" THEN "numpy"
                                               ELSE "dask_array",
                                   !.columns = <<>>] : t \in T}

NoCall == [op |-> "none", X |-> NoTable, src |-> NoTable, out |-> NoTable,
           exc |-> "", msg |-> NoMsg]

\* fit of a table with its dtypes; a column of an integer dtype holds no
\* missing value.
Fit ==
    /\ call.op = "none"
    /\ enc.stage = "new"
    /\ \E X \in RawTables : \E dt \in DTypeMaps :
         LET r == FitResult(enc, X, dt)
         IN /\ \A c \in Range(X.columns) :
                  dt[c] \in IntDTypes => 0 \notin Range(Column(X, c))
            /\ enc' = r.enc
            /\ call' = [NoCall EXCEPT !.op = "fit", !.X = X, !.exc = r.exc]
    /\ UNCHANGED <<be, cache, hook, imp>>

Transform ==
    /\ call.op = "none"
    /\ \E X \in RawTables :
         LET r == TransformResult(enc, X)
         IN call' = [NoCall EXCEPT !.op = "transform", !.X = X, !.out = r.out,
                                   !.exc = r.exc, !.msg = r.msg]
    /\ UNCHANGED <<enc, be, cache, hook, imp>>

\* inverse_transform of a table or an array of codes.
InverseTransform ==
    /\ call.op = "none"
    /\ \E X \in CodeTables :
         LET r == InverseResult(enc, X)
         IN call' = [NoCall EXCEPT !.op = "inverse_transform", !.X = X,
                                   !.out = r.out, !.exc = r.exc]
    /\ UNCHANGED <<enc, be, cache, hook, imp>>

\* inverse_transform of the table the last transform returned.
InverseOfTransform ==
    /\ call.op = "transform" /\ call.exc = ""
    /\ LET r == InverseResult(enc, call.out)
       IN call' = [NoCall EXCEPT !.op = "inverse_transform", !.X = call.out,
                                 !.src = call.X, !.out = r.out, !.exc = r.exc]
    /\ UNCHANGED <<enc, be, cache, hook, imp>>

\* The call returns: the caller drops its argument and its result.
Discard ==
    /\ call.op # "none"
    /\ call' = NoCall
    /\ UNCHANGED <<enc, be, cache, hook, imp>>


---------------------------------------------------------------------------
\* permutation_importance.
\*
\* A feature table is a record of its backend, its number of columns, its
\* partitions and whether the objects of its partitions are held by its
\* task graph (a table made by dd.from_pandas or persisted) or are made anew
\* by every computation.  A partition is a sequence of rows, a row a record
\* of its index label and its cells, one for each column.  A score is an
\* integer; a mean is kept as the sum and the count it divides.

MaxFeatures == 2
MaxRepeats == 2
MaxParts == 2

Scores == {0, 1}
Baseline == -1

\* The rows of partition p: two in the first, one in every other.
PartRows(p) == IF p = 1 THEN 2 ELSE 1
\* The label of row r of partition p, and the value of its column c: all
\* different from each other.
Label(p, r) == 2 * p + r
Val(p, r, c) == 10 * Label(p, r) + c
FeatureTable(backend, F, k, held) ==
    [backend |-> backend, F |-> F, held |-> held,
     parts |-> [p \in 1..k |->
                  [r \in 1..PartRows(p) |->
                     [idx |-> Label(p, r), cells |-> [c \in 1..F |-> Val(p, r, c)]]]]]
NoFeatureTable == [backend |-> "none", F |-> 0, held |-> FALSE, parts |-> <<>>]

\* The orders random_state.shuffle can leave np.arange(n) in.
Shuffles(n) == {s \in [1..n -> 1..n] : \A a, b \in 1..n : s[a] = s[b] => a = b}

\* shuffle_partition(df, col_idx) when the shuffle leaves shuffling_idx:
\* col = df.iloc[shuffling_idx, col_idx] takes the column in the shuffled
\* order, col.index = df.index gives it the labels of df, and
\* df.iloc[:, col_idx] = col writes it into df.  col_idx counts from 0.
shuffle_partition(df, col_idx, shuffling_idx) ==
    [r \in 1..Len(df) |->
       [df[r] EXCEPT !.cells[col_idx + 1] = df[shuffling_idx[r]].cells[col_idx + 1]]]

\* X.copy().map_partitions(shuffle_partition, c), with the shuffle of each
\* partition.
MapPartitions(X, c, idx) ==
    [X EXCEPT !.parts = [p \in 1..Len(X.parts) |->
                           shuffle_partition(X.parts[p], c, idx[p])]]

\* X after the computation of X_permuted: X.copy() copies the task graph,
\* not the partitions, and shuffle_partition writes into the df it is
\* given; where the graph holds the partitions, they are those of X.
AfterCompute(X, permuted) == IF X.held THEN [X EXCEPT !.parts = permuted.parts] ELSE X

RECURSIVE SumSeq(_)
SumSeq(s) == IF s = <<>> THEN 0 ELSE Head(s) + SumSeq(Tail(s))

\* importances = baseline_score - np.array(scores)
ImportancesFromScores(baseline_score, scores) ==
    [f \in DOMAIN scores |->
       [i \in DOMAIN scores[f] |-> scores[f][i] - baseline_score]]
Importances(baseline_score, scores) ==
    [f \in DOMAIN scores |->
       [i \in DOMAIN scores[f] |-> baseline_score - scores[f][i]]]

\* np.mean(importances, axis=1): for each row its sum over its length.
MeanAxis1(m) == [f \in DOMAIN m |-> [sum |-> SumSeq(m[f]), count |-> Len(m[f])]]

\* sk_utils.Bunch(importances_mean=..., importances_std=..., importances=...)
\* (the standard deviation is not modelled).
Bunch(baseline_score, scores) ==
    LET importances == Importances(baseline_score, scores)
    IN [importances_mean |-> MeanAxis1(importances), importances |-> importances]
NoBunch == [importances_mean |-> <<>>, importances |-> <<>>]

\* wrap_estimator: the prediction methods the estimator has are replaced by
\* call_and_compute wrappers.
wrap_estimator(est) == [est EXCEPT !.wrapped = est.has]

\* The state of one call: where it is (pc), its arguments, the loop
\* counters c and i, the scores taken so far, the column each call of the
\* scorer was for (Baseline for the unpermuted X), the last permuted table
\* with X as it was before that trial, and the result.
NoImportance ==
    [pc |-> "none", X |-> NoFeatureTable, X0 |-> NoFeatureTable, y |-> "none",
     est |-> [has |-> {}, wrapped |-> {}], n_repeats |-> 0, c |-> 0, i |-> 0,
     baseline_score |-> 0, col_scores |-> <<>>, scores |-> <<>>, scored |-> <<>>,
     X_permuted |-> NoFeatureTable, X_before |-> NoFeatureTable,
     delegated |-> FALSE, result |-> NoBunch]

\* The call with an eager X: all of it is sk_inspect.permutation_importance.
PermutationImportanceEager ==
    /\ imp.pc = "called" /\ imp.X.backend # "dask"
    /\ imp' = [imp EXCEPT !.pc = "done", !.delegated = TRUE]
    /\ UNCHANGED <<enc, call, be, cache, hook>>

\* The call with a partitioned X, up to the loop: y is computed, the
\* estimator wrapped and the baseline scored.
PermutationImportance ==
    /\ imp.pc = "called" /\ imp.X.backend = "dask"
    /\ \E s \in Scores :
         imp' = [imp EXCEPT !.pc = "loop",
                            !.y = IF @ = "dd_series" THEN "pd_series" ELSE @,
                            !.est = wrap_estimator(@),
                            !.baseline_score = s,
                            !.scored = <<Baseline>>,
                            !.c = 0, !.i = 0]
    /\ UNCHANGED <<enc, call, be, cache, hook>>

\* One pass of the inner loop: X_permuted is made and scored, which
\* computes it.  The pass that ends a column appends its scores, and the
\* pass that ends the last column is followed by the making of the result.
Trial ==
    /\ imp.pc = "loop"
    /\ \E s \in Scores :
       \E idx \in [1..Len(imp.X.parts) ->
                      UNION {Shuffles(Len(imp.X.parts[p])) : p \in 1..Len(imp.X.parts)}] :
         /\ \A p \in 1..Len(imp.X.parts) : idx[p] \in Shuffles(Len(imp.X.parts[p]))
         /\ LET X_permuted == MapPartitions(imp.X, imp.c, idx)
                col_scores == Append(imp.col_scores, s)
                last_i == imp.i + 1 = imp.n_repeats
                scores == IF last_i THEN Append(imp.scores, col_scores) ELSE imp.scores
                last_c == last_i /\ imp.c + 1 = imp.X.F
            IN imp' = [imp EXCEPT
                         !.X_permuted = X_permuted,
                         !.X_before = imp.X,
                         !.X = AfterCompute(imp.X, X_permuted),
                         !.scored = Append(@, imp.c),
                         !.col_scores = IF last_i THEN <<>> ELSE col_scores,
                         !.scores = scores,
                         !.i = IF last_i THEN 0 ELSE imp.i + 1,
                         !.c = IF last_i THEN imp.c + 1 ELSE imp.c,
                         !.pc = IF last_c THEN "done" ELSE "loop",
                         !.result = IF last_c THEN Bunch(imp.baseline_score, scores)
                                    ELSE NoBunch]
    /\ UNCHANGED <<enc, call, be, cache, hook>>

---------------------------------------------------------------------------
\* DataInterceptEncoder and its subclasses.
\*
\* A step is a record of its class, its four toggles and the parameters of
\* the class.  Data is a record of its type and of whether it is persisted.
\* The cache is the dict shared by reference: a function from the keys it
\* holds to data.  A comma separated str of keys is kept as the tuple of its
\* parts, a collection of keys as a set.

Keys == {"k1", "k2", "k3"}
HookNames == {"fit", "fit_transform", "transform", "inverse_transform"}
Inputs == {[kind |-> k, persisted |-> FALSE] :
             k \in {"pd_df", "dd_df", "da_array", "dd_series"}}
OldData == [kind |-> "pd_df", persisted |-> TRUE]
OtherData == [kind |-> "np_array", persisted |-> FALSE]
NoData == [kind |-> "none", persisted |-> FALSE]

NoRemoveKeys == [given |-> "None", str |-> <<>>, keys |-> {}]
StrKeys(t) == [given |-> "str", str |-> t, keys |-> {}]
SetKeys(S) == [given |-> "set", str |-> <<>>, keys |-> S]

\* DataInterceptEncoder.__init__
Step(cls, t) ==
    [cls |-> cls, toggles |-> t, fn |-> "none", cache_key |-> "",
     remove_keys |-> NoRemoveKeys]

\* CallableAdapterEncoder.__init__
CallableAdapterEncoder(fn, t) == [Step("CallableAdapterEncoder", t) EXCEPT !.fn = fn]

\* DataCacher.__init__: a str of keys is split at the commas into a set.
DataCacher(cache_key, remove_keys, t) ==
    [Step("DataCacher", t) EXCEPT
       !.cache_key = cache_key,
       !.remove_keys = IF remove_keys.given = "str"
                       THEN SetKeys(Range(remove_keys.str))
                       ELSE remove_keys]

\* CacheCleaner.__init__
CacheCleaner(t) == Step("CacheCleaner", t)

\* X.persist()
PersistNothing(X) == X
Persist(X) == [X EXCEPT !.persisted = TRUE]

\* The dict after del d[key] for every key of keys that it holds.
Remove(d, keys) == [k \in (DOMAIN d) \ keys |-> d[k]]
\* The dict after d[key] = X.
Store(d, key, X) == [k \in (DOMAIN d) \cup {key} |-> IF k = key THEN X ELSE d[k]]

\* intercept(X): what it returns, the cache it leaves and the exception it
\* raises, for each class.
DataCacherIntercept(h, d, X) ==
    LET X1 == IF h.cache_key # "" /\ X.kind \in {"dd_df", "da_array"}
              THEN Persist(X) ELSE X
        d1 == IF h.cache_key # "" THEN Store(d, h.cache_key, X1) ELSE d
        d2 == IF h.remove_keys.given # "None" /\ h.remove_keys.keys # {}
              THEN Remove(d1, h.remove_keys.keys) ELSE d1
    IN [ret |-> X1, cache |-> d2, exc |-> ""]

intercept(h, d, X) ==
    IF h.cls = "DataInterceptEncoder"
    THEN [ret |-> NoData, cache |-> d, exc |-> "NotImplementedError"]
    ELSE IF h.cls = "CallableAdapterEncoder"
    THEN [ret |-> IF h.fn = "same" THEN X ELSE OtherData, cache |-> d, exc |-> ""]
    ELSE IF h.cls = "DataCacher" THEN DataCacherIntercept(h, d, X)
    ELSE \* CacheCleaner: self._cache_dict.clear()
         [ret |-> X, cache |-> <<>>, exc |-> ""]

\* The toggle a hook tests.
ToggleOfFitTransform(h, name) == h.toggles["fit_transform"]
Toggle(h, name) == h.toggles[name]

\* The record of a hook call: its argument, the cache it found, whether it
\* returned the step itself, the data it returned, its exception, and the
\* number of intercept calls it made with their argument and result.
NoHookCall == [op |-> "none", X |-> NoData, before |-> <<>>, self |-> FALSE,
               ret |-> NoData, exc |-> "", intercepts |-> 0, seen |-> NoData,
               iret |-> NoData]

\* A hook called with X: fit returns self, the other three return the data.
HookCall(h, d, name, X) ==
    LET c == [NoHookCall EXCEPT !.op = name, !.X = X, !.before = d]
    IN IF Toggle(h, name)
       THEN LET r == intercept(h, d, X)
                c1 == [c EXCEPT !.intercepts = 1, !.seen = X, !.iret = r.ret,
                                !.exc = r.exc]
            IN [cache |-> r.cache,
                call |-> IF r.exc # "" THEN c1
                         ELSE IF name = "fit" THEN [c1 EXCEPT !.self = TRUE]
                         ELSE [c1 EXCEPT !.ret = r.ret]]
       ELSE [cache |-> d,
             call |-> IF name = "fit" THEN [c EXCEPT !.self = TRUE]
                      ELSE [c EXCEPT !.ret = X]]

HookFit ==
    /\ hook.call.op = "none"
    /\ \E X \in Inputs :
         LET r == HookCall(hook.step, cache, "fit", X)
         IN hook' = [hook EXCEPT !.call = r.call] /\ cache' = r.cache
    /\ UNCHANGED <<enc, call, be, imp>>

HookFitTransform ==
    /\ hook.call.op = "none"
    /\ \E X \in Inputs :
         LET r == HookCall(hook.step, cache, "fit_transform", X)
         IN hook' = [hook EXCEPT !.call = r.call] /\ cache' = r.cache
    /\ UNCHANGED <<enc, call, be, imp>>

HookTransform ==
    /\ hook.call.op = "none"
    /\ \E X \in Inputs :
         LET r == HookCall(hook.step, cache, "transform", X)
         IN hook' = [hook EXCEPT !.call = r.call] /\ cache' = r.cache
    /\ UNCHANGED <<enc, call, be, imp>>

HookInverseTransform ==
    /\ hook.call.op = "none"
    /\ \E X \in Inputs :
         LET r == HookCall(hook.step, cache, "inverse_transform", X)
         IN hook' = [hook EXCEPT !.call = r.call] /\ cache' = r.cache
    /\ UNCHANGED <<enc, call, be, imp>>

\* The steps and caches the hooks are driven with.
ToggleSets == [HookNames -> BOOLEAN]
RemoveKeyParams ==
    {NoRemoveKeys, StrKeys(<<"k1">>), StrKeys(<<"k1", "k2">>), StrKeys(<<"k2", "k3">>)}
    \cup {SetKeys(S) : S \in {{}, {"k2"}, {"k1", "k3"}}}
Steps ==
    {Step("DataInterceptEncoder", t) : t \in ToggleSets}
    \cup {CallableAdapterEncoder(f, t) : f \in {"same", "other"}, t \in ToggleSets}
    \cup {DataCacher(k, r, t) : k \in {"", "k1"}, r \in RemoveKeyParams, t \in ToggleSets}
    \cup {CacheCleaner(t) : t \in ToggleSets}
Caches == UNION {[S -> {OldData}] : S \in SUBSET Keys}

NoCache == <<>>
NoHook == [step |-> Step("DataInterceptEncoder", [n \in HookNames |-> FALSE]),
           call |-> NoHookCall]

InitIntercept ==
    /\ hook \in {[step |-> st, call |-> NoHookCall] : st \in Steps}
    /\ cache \in Caches
    /\ enc = NewEncoder(NoColumns, "float64") /\ call = NoCall
    /\ be = NoBackendCall /\ imp = NoImportance

NextIntercept ==
    \/ HookFit
    \/ HookFitTransform
    \/ HookTransform
    \/ HookInverseTransform

SpecIntercept == InitIntercept /\ [][NextIntercept]_vars

---------------------------------------------------------------------------
\* The specifications: one for each part of the module.

InitBackend ==
    /\ be \in {[NoBackendCall EXCEPT !.args = a, !.axis = ax, !.repartition = rp] :
                 a \in SeqsUpTo(Datasets, MaxInputs), ax \in {0, 1}, rp \in BOOLEAN}
    /\ enc = NewEncoder(NoColumns, "float64") /\ call = NoCall
    /\ cache = NoCache /\ hook = NoHook /\ imp = NoImportance

NextBackend ==
    \/ MakeChunkSizeKnown
    \/ MakeChunkSizeKnownAgain
    \/ MakeDivisionsKnown
    \/ MakeDivisionsKnownAgain
    \/ ConcatDf
    \/ TrainTestSplit
    \/ HstackArray
    \/ VstackArray

SpecBackend == InitBackend /\ [][NextBackend]_vars

InitEncoder ==
    /\ enc \in {NewEncoder(c, "float64") : c \in CtorColumns}
    /\ call = NoCall
    /\ be = NoBackendCall /\ cache = NoCache /\ hook = NoHook /\ imp = NoImportance

NextEncoder ==
    \/ Fit
    \/ Transform
    \/ InverseTransform
    \/ InverseOfTransform
    \/ Discard

SpecEncoder == InitEncoder /\ [][NextEncoder]_vars

\* The calls of permutation_importance: a table of 1..MaxFeatures columns in
\* 1..MaxParts partitions, eager or partitioned, with 1..MaxRepeats repeats.
InitImportance ==
    /\ imp \in {[NoImportance EXCEPT
                   !.pc = "called", !.X = X, !.X0 = X, !.y = y,
                   !.est = [has |-> h, wrapped |-> {}], !.n_repeats = R] :
                 X \in {FeatureTable(b, F, k, held) :
                          b \in {"dask", "eager"}, F \in 1..MaxFeatures,
                          k \in 1..MaxParts, held \in BOOLEAN},
                 y \in {"dd_series", "pd_series"},
                 h \in {{"predict"}, {"predict", "predict_proba"}},
                 R \in 1..MaxRepeats}
    /\ enc = NewEncoder(NoColumns, "float64") /\ call = NoCall
    /\ be = NoBackendCall /\ cache = NoCache /\ hook = NoHook

NextImportance ==
    \/ PermutationImportanceEager
    \/ PermutationImportance
    \/ Trial

SpecImportance == InitImportance /\ [][NextImportance]_vars

---------------------------------------------------------------------------
\* Properties of the SafeOrdinalEncoder (specification SpecEncoder).

Fitted == enc.stage = "fitted"
IsCat(c) == c \in Range(enc.categorical_columns_)
Cell(X, i, c) == Rows(X)[i][ColIdx(X.columns, c)]
\* The 1-based position of v among the sorted distinct values of cat.
Position(cat, v) == Cardinality({u \in Range(cat) : u <= v})
StrictlySorted(s) == \A i, j \in DOMAIN s : i < j => s[i] < s[j]
Present(X, c) == {Column(X, c)[i] : i \in 1..Len(Rows(X))} \ {0}

\* C2: transform maps every value of a categorical column to its 1-based
\* position in the column's sorted, deduplicated fitted vocabulary and every
\* value that is not in the vocabulary to 0: the vocabulary fit stores is the
\* strictly increasing sequence of the values present in the fitted table,
\* every code is in 0..n, and code 0 is produced exactly for absent values.
C2_CodesArePositions ==
    /\ (call.op = "fit" /\ call.exc = "") =>
         \A c \in Range(enc.categorical_columns_) :
            /\ StrictlySorted(enc.categories_[c])
            /\ Range(enc.categories_[c]) = Present(call.X, c)
    /\ (call.op = "transform" /\ call.exc = "") =>
         \A c \in Range(enc.categorical_columns_) :
            \A i \in 1..Len(Rows(call.X)) :
               LET cat == enc.categories_[c]
                   v == Cell(call.X, i, c)
                   code == Cell(call.out, i, c)
               IN /\ StrictlySorted(cat)
                  /\ v \in Range(cat) => code = ToFloat(Position(cat, v))
                  /\ v \notin Range(cat) => code = ToFloat(0)
                  /\ code \in {ToFloat(k) : k \in 0..Len(cat)}
                  /\ code = ToFloat(0) <=> v \notin Range(cat)

\* A transform that encoded a value at position 2 of a vocabulary and a
\* value that is not in the vocabulary.
C2_Witness ==
    /\ call.op = "transform" /\ call.exc = ""
    /\ \E c \in Range(enc.categorical_columns_) :
         \E i, j \in 1..Len(Rows(call.X)) :
            /\ Cell(call.out, i, c) = ToFloat(2)
            /\ Cell(call.X, j, c) \notin Range(enc.categories_[c])
            /\ Cell(call.out, j, c) = ToFloat(0)

\* C1: round trip: inverse_transform applied to the output of transform on a
\* row that holds, in a categorical column c, a value v of the fitted
\* vocabulary of c returns v in column c (stated for the tables of one row).
C1_RoundTrip ==
    (call.op = "inverse_transform" /\ call.src # NoTable /\ Len(Rows(call.src)) = 1) =>
       \A c \in Range(enc.categorical_columns_) :
          Cell(call.src, 1, c) \in Range(enc.categories_[c]) =>
             /\ call.exc = ""
             /\ Cell(call.out, 1, c) = Cell(call.src, 1, c)

\* What does hold: every value of the vocabulary comes back whenever the
\* decoder returns a table.
RoundTripWhenDecoded ==
    (call.op = "inverse_transform" /\ call.src # NoTable /\ call.exc = "") =>
       \A c \in Range(enc.categorical_columns_) :
          \A i \in 1..Len(Rows(call.src)) :
             Cell(call.src, i, c) \in Range(enc.categories_[c]) =>
                Cell(call.out, i, c) = Cell(call.src, i, c)

\* The marker the claim C3 names for a dtype.
UnknownMarker(dtype) ==
    IF dtype \in FloatDTypes THEN NaN
    ELSE IF dtype \in IntDTypes THEN MinusOne
    ELSE NoneValue

\* The table inverse_transform decodes: the argument, or the argument with
\* the fitted columns when it is an array.
Decoded(X) == IF IsArray(X) THEN [X EXCEPT !.columns = enc.columns_] ELSE X
Decodable(X) ==
    /\ Fitted
    /\ IsArray(X) => Width(X) = Len(enc.columns_)
    /\ \A c \in Range(enc.categorical_columns_) : c \in Range(Decoded(X).columns)

\* C3: inverse_transform is total on codes: in a column whose vocabulary has
\* n values, a whole code that is 0, negative or greater than n decodes,
\* without raising, to the marker of the column's dtype at fit time (NaN for
\* a float column, -1 for an integer column, None otherwise), and a code in
\* 1..n decodes to the value at that position of the vocabulary.
C3_DecodeTotal ==
    (call.op = "inverse_transform" /\ Decodable(call.X)) =>
       /\ call.exc = ""
       /\ \A c \in Range(enc.categorical_columns_) :
             \A i \in 1..Len(Rows(call.X)) :
                LET x == Cell(Decoded(call.X), i, c)
                    cat == enc.categories_[c]
                    k == x \div 2
                IN x % 2 = 0 =>
                     Cell(call.out, i, c) =
                        IF k \in 1..Len(cat) THEN cat[k]
                        ELSE UnknownMarker(enc.dtypes_[c])

\* What does hold: the markers of the dtypes the decoder names.
DecodeMarkers ==
    (call.op = "inverse_transform" /\ Decodable(call.X) /\ call.exc = "") =>
       \A c \in Range(enc.categorical_columns_) :
          \A i \in 1..Len(Rows(call.X)) :
             LET x == Cell(Decoded(call.X), i, c)
                 cat == enc.categories_[c]
                 k == x \div 2
             IN x % 2 = 0 =>
                  Cell(call.out, i, c) =
                     IF k \in 1..Len(cat) THEN cat[k]
                     ELSE UnknownMarker(enc.dtypes_[c])

\* C4: schema guard: transform of a table whose column sequence differs from
\* the one seen at fit (a column missing, an extra column, another order)
\* raises and returns no table; transform encodes only when the sequences
\* are equal, and the table it returns has the columns of its argument.
C4_SchemaGuard ==
    call.op = "transform" =>
       /\ (enc.stage # "new" /\ call.X.columns # enc.columns_) =>
             (call.exc = "ValueError" /\ call.out = NoTable)
       /\ call.exc = "" =>
             (call.X.columns = enc.columns_ /\ call.out.columns = call.X.columns)
       /\ call.exc # "" => call.out = NoTable

\* A fitted encoder refused a table that has the fitted columns in another
\* order.
C4_Witness ==
    /\ call.op = "transform" /\ Fitted
    /\ call.exc = "ValueError"
    /\ Range(call.X.columns) = Range(enc.columns_)
    /\ Len(call.X.columns) = Len(enc.columns_)
    /\ call.X.columns # enc.columns_

\* The values fit is given for the selected columns c of X.
Selectable(X) ==
    enc.columns.isNone \/ \A c \in Range(enc.columns.names) : c \in Range(X.columns)

\* C5: partition independence: fit yields the vocabulary of the rows,
\* whether the table is eager or partitioned and however its rows are cut
\* and ordered, and transform yields for every row the code the encoder
\* yields for it in one eager table.
C5_PartitionIndependent ==
    /\ (call.op = "fit" /\ Selectable(call.X)) =>
          /\ call.exc = ""
          /\ \A c \in Range(enc.categorical_columns_) :
                enc.categories_[c] = SortedSeq(Present(call.X, c))
    /\ (call.op = "transform" /\ call.exc = "") =>
          /\ Rows(call.out) =
                SafeOrdinalEncoderFn(enc.categorical_columns_, enc.categories_,
                                     call.X.columns, Rows(call.X))
          /\ \A p \in 1..Len(call.X.parts) : Len(call.out.parts[p]) = Len(call.X.parts[p])

\* What does hold: the claim C5 for the fits of partitioned tables.
PartitionedFitIndependent ==
    /\ (call.op = "fit" /\ Selectable(call.X) /\ call.X.backend = "dask") =>
          /\ call.exc = ""
          /\ \A c \in Range(enc.categorical_columns_) :
                enc.categories_[c] = SortedSeq(Present(call.X, c))
    /\ (call.op = "transform" /\ call.exc = "") =>
          /\ Rows(call.out) =
                SafeOrdinalEncoderFn(enc.categorical_columns_, enc.categories_,
                                     call.X.columns, Rows(call.X))
          /\ Len(call.out.parts) = Len(call.X.parts)

\* C10: the error transform raises on a column mismatch carries the column
\* sequence of the table it was given and the column sequence recorded at
\* fit time.
C10_ErrorNamesColumns ==
    (call.op = "transform" /\ Fitted /\ call.exc = "ValueError") =>
       /\ call.msg.got = call.X.columns
       /\ ~call.msg.expected.isNone
       /\ call.msg.expected.names = enc.columns_

---------------------------------------------------------------------------
\* Properties of the backend helpers (specification SpecBackend).

Mixed(args) ==
    /\ \E i \in DOMAIN args : is_dask_object(args[i])
    /\ \E i \in DOMAIN args : ~is_dask_object(args[i])

\* C6: dominant backend: concat_df and train_test_split, given inputs that
\* mix eager and partitioned values, for either axis, return a partitioned
\* result: they neither return an eager result nor raise.  (Stated for the
\* inputs with a partitioned table among them and pandas values beside it,
\* where the outcome of the backend's primitive is known.)
C6_DominantBackend ==
    (/\ be.op \in {"concat_df", "train_test_split"}
     /\ Mixed(be.args) /\ exist_dask_dataframe(be.args)
     /\ AllOf(be.args, FrameKinds)) =>
       (be.exc = "" /\ be.res = "dask")

\* What does hold: train_test_split promotes its eager inputs, and concat_df
\* along the rows, without repartition, hands them to dd.concat.
DominantWherePromoted ==
    (/\ \/ be.op = "train_test_split"
        \/ be.op = "concat_df" /\ be.axis = 0 /\ ~be.repartition
     /\ Mixed(be.args) /\ exist_dask_dataframe(be.args)
     /\ AllOf(be.args, FrameKinds)) =>
       (be.exc = "" /\ be.res = "dask")

\* C7: metadata repair is idempotent: a second make_chunk_size_known or
\* make_divisions_known returns what the first returned; the result of the
\* first has known chunk sizes or known divisions, and the second computes
\* no chunk sizes and resets no index.
C7_RepairIdempotent ==
    (be.op \in {"make_chunk_size_known", "make_divisions_known"} /\ be.exc = "") =>
       /\ MetadataKnown(be.results[1])
       /\ Len(be.results) = 2 =>
             /\ be.results[2] = be.results[1]
             /\ be.computes[2] = 0 /\ be.resets[2] = 0

\* A second repair of a table, and of an array, whose first repair had work
\* to do.
C7_Witness ==
    /\ be.op \in {"make_chunk_size_known", "make_divisions_known"}
    /\ be.exc = "" /\ Len(be.results) = 2
    /\ ~MetadataKnown(be.args[1])
    /\ be.computes[1] + be.resets[1] = 1
    /\ be.results[1] # be.args[1]

---------------------------------------------------------------------------
\* Properties of the intercept steps (specification SpecIntercept).

hc == hook.call
Called == hc.op # "none" /\ hc.exc = ""
On == hook.step.toggles[hc.op]

\* C8: each of the four hooks is controlled by its own toggle; a hook whose
\* toggle is on calls intercept once with the data and returns what
\* intercept returned, a hook whose toggle is off does not call intercept
\* and returns the data it was given.
C8_HooksReturnIntercept ==
    Called =>
       /\ On => (hc.intercepts = 1 /\ hc.seen = hc.X /\ ~hc.self /\ hc.ret = hc.iret)
       /\ ~On => (hc.intercepts = 0 /\ ~hc.self /\ hc.ret = hc.X)

\* C8 as amended: fit_transform, transform and inverse_transform do so; fit
\* calls intercept once when its toggle is on and not at all when it is off,
\* and returns the step itself in both cases.
C8_HooksAmended ==
    hc.op # "none" =>
       /\ hc.intercepts = (IF On THEN 1 ELSE 0)
       /\ On => hc.seen = hc.X
       /\ (hc.exc = "" /\ hc.op # "fit") =>
             (~hc.self /\ hc.ret = (IF On THEN hc.iret ELSE hc.X))
       /\ (hc.exc = "" /\ hc.op = "fit") => (hc.self /\ hc.ret = NoData)
       /\ hc.exc # "" => On

\* A transform hook that returned what intercept made of the data while the
\* toggle of fit_transform is off.
C8_Witness ==
    /\ Called /\ hc.op = "transform" /\ On
    /\ ~hook.step.toggles["fit_transform"]
    /\ hc.ret = OtherData /\ hc.ret # hc.X

Cacher == hook.step.cls = "DataCacher" /\ hook.step.cache_key # ""
          /\ hc.op # "none" /\ hc.intercepts = 1
Partitioned(X) == X.kind \in {"dd_df", "da_array", "dd_series"}

Kept(keys) ==
    \A o \in keys : /\ o \in DOMAIN cache <=> o \in DOMAIN hc.before
                    /\ o \in DOMAIN cache => cache[o] = hc.before[o]

\* C9: after a DataCacher with a non-empty cache_key k intercepts X, the
\* cache holds X (persisted when X is partitioned) under k, every other key
\* named in remove_keys is absent, every key that is neither k nor in
\* remove_keys keeps its entry, and the step returns the data it stored.
C9_CacheWriter ==
    Cacher =>
       LET k == hook.step.cache_key
           rk == hook.step.remove_keys.keys
           stored == IF Partitioned(hc.X) THEN [hc.X EXCEPT !.persisted = TRUE]
                     ELSE hc.X
       IN /\ k \in DOMAIN cache /\ cache[k] = stored
          /\ \A r \in rk \ {k} : r \notin DOMAIN cache
          /\ Kept(Keys \ (rk \cup {k}))
          /\ hc.iret = stored

\* C9 as amended: the data stored is X, persisted when X is a partitioned
\* table or array (a partitioned series is stored as given); every key named
\* in remove_keys is absent afterwards, k too when it is named there, and
\* otherwise the cache holds the data under k; every key that is neither k
\* nor in remove_keys keeps its entry, and the step returns the data it
\* stored.
C9_CacheWriterAmended ==
    Cacher =>
       LET k == hook.step.cache_key
           rk == hook.step.remove_keys.keys
           stored == IF hc.X.kind \in {"dd_df", "da_array"}
                     THEN [hc.X EXCEPT !.persisted = TRUE] ELSE hc.X
       IN /\ k \notin rk => (k \in DOMAIN cache /\ cache[k] = stored)
          /\ \A r \in rk : r \notin DOMAIN cache
          /\ Kept(Keys \ (rk \cup {k}))
          /\ hc.iret = stored

\* A DataCacher stored a partitioned table under k1, replacing the entry the
\* cache held there, and removed k2, which the cache held, while k3 was held
\* and kept.
C9_Witness ==
    /\ Cacher /\ hc.X.kind = "dd_df"
    /\ DOMAIN hc.before = Keys
    /\ hook.step.remove_keys.keys = {"k2"}
    /\ DOMAIN cache = {"k1", "k3"}
    /\ cache["k1"].persisted /\ cache["k1"].kind = "dd_df"
    /\ cache["k3"] = OldData

---------------------------------------------------------------------------
\* Properties of permutation_importance (specification SpecImportance).

Finished == imp.pc = "done" /\ ~imp.delegated
Count(s, x) == Cardinality({k \in DOMAIN s : s[k] = x})

\* C11: permutation_importance on a partitioned table with F columns and
\* n_repeats = R scores the model once for the baseline and R times for each
\* of the F columns, and returns for each feature the baseline score minus
\* the mean of its R scores (sum / R = baseline - (sum of the scores) / R,
\* stated without the division), with a raw matrix of F rows and R columns.
C11_ScoresAndMeans ==
    Finished =>
       LET F == imp.X0.F
           R == imp.n_repeats
           res == imp.result
       IN /\ Count(imp.scored, Baseline) = 1
          /\ \A c \in 0..(F - 1) : Count(imp.scored, c) = R
          /\ Len(imp.scored) = 1 + F * R
          /\ Len(res.importances) = F /\ Len(res.importances_mean) = F
          /\ \A f \in 1..F :
                /\ Len(res.importances[f]) = R
                /\ res.importances_mean[f].count = R
                /\ res.importances_mean[f].sum =
                      R * imp.baseline_score - SumSeq(imp.scores[f])

\* A finished call with two features and two repeats, the scores of a
\* feature different from each other, and an importance that is not zero.
C11_Witness ==
    /\ Finished /\ imp.X0.F = 2 /\ imp.n_repeats = 2
    /\ imp.scores[1][1] # imp.scores[1][2]
    /\ imp.result.importances_mean[2].sum # 0
    /\ imp.result.importances_mean[1].sum # imp.result.importances_mean[2].sum

---------------------------------------------------------------------------
\* Repair before operate (specification SpecBackend).

Invoked == be.prim.name # "none"
AllDask(args) == args # <<>> /\ \A i \in DOMAIN args : is_dask_object(args[i])
AllKnown(args) == \A i \in DOMAIN args : MetadataKnown(args[i])
\* A call on partitioned inputs of the kinds the function is written for:
\* arrays for the two stack functions, tables and series for concat_df.
OnPartitioned ==
    /\ AllDask(be.args)
    /\ be.op \in {"hstack_array", "vstack_array"} => AllOf(be.args, {"da_array"})
    /\ be.op = "concat_df" => AllOf(be.args, FrameKinds)
\* The calls in which the code repairs its inputs.
Repairing ==
    \/ be.op \in {"hstack_array", "vstack_array"} /\ Len(be.args) > 1
    \/ be.op = "concat_df" /\ be.axis = 1 /\ exist_dask_dataframe(be.args)
    \/ be.op = "train_test_split" /\ Len(be.args) > 1 /\ exist_dask_dataframe(be.args)

\* C12: in every call of hstack_array, vstack_array, concat_df and
\* train_test_split on partitioned inputs, for every number of inputs and
\* either axis, the backend primitive is invoked only on arrays whose chunk
\* sizes are all known and tables whose divisions are known.
C12_RepairBeforeOperate ==
    (/\ be.op \in {"hstack_array", "vstack_array", "concat_df", "train_test_split"}
     /\ OnPartitioned /\ Invoked) =>
       AllKnown(be.prim.args)

\* C12 as amended: that holds of hstack_array and vstack_array with more
\* than one array, of concat_df along axis 1 with a partitioned table among
\* its inputs, and of train_test_split with more than one dataset and a
\* partitioned table among them; in every other call the primitive is
\* invoked on the inputs as they were given.
C12_RepairWhereNeeded ==
    (/\ be.op \in {"hstack_array", "vstack_array", "concat_df", "train_test_split"}
     /\ OnPartitioned /\ Invoked) =>
       /\ Repairing => AllKnown(be.prim.args)
       /\ ~Repairing => be.prim.args = be.args

\* hstack_array of two arrays, one of them with chunks of unknown size,
\* that invoked da.hstack on arrays with known chunk sizes.
C12_Witness ==
    /\ be.op = "hstack_array" /\ Len(be.args) = 2 /\ AllDask(be.args)
    /\ ~AllKnown(be.args)
    /\ be.prim.name = "da.hstack" /\ AllKnown(be.prim.args)
    /\ be.computes[1] >= 1

---------------------------------------------------------------------------
\* The permuted tables (specification SpecImportance).

Tried == imp.X_permuted # NoFeatureTable
\* The column of the last trial, counted from 0.
TrialColumn == imp.scored[Len(imp.scored)]
ColumnOf(part, c) == [r \in 1..Len(part) |-> part[r].cells[c + 1]]
SameBag(s, t) ==
    /\ Len(s) = Len(t)
    /\ \A v \in Range(s) \cup Range(t) : Count(s, v) = Count(t, v)
\* A has the partition layout, the row index and, but for column c, the
\* cells of B.
SameButColumn(A, B, c) ==
    /\ Len(A.parts) = Len(B.parts)
    /\ \A p \in 1..Len(A.parts) :
          /\ Len(A.parts[p]) = Len(B.parts[p])
          /\ \A r \in 1..Len(A.parts[p]) :
                /\ A.parts[p][r].idx = B.parts[p][r].idx
                /\ \A d \in 1..A.F : d # c + 1 =>
                      A.parts[p][r].cells[d] = B.parts[p][r].cells[d]
\* In every partition, column c of A holds the values column c of B holds
\* in that partition, as often.
PermutedWithin(A, B, c) ==
    \A p \in 1..Len(A.parts) :
       SameBag(ColumnOf(A.parts[p], c), ColumnOf(B.parts[p], c))

\* C13: each permuted table scored for column c differs from the input
\* table X only in column c; within every partition the values of column c
\* are a permutation of that partition's own values; the other columns, the
\* row index and the partition layout are unchanged; and X itself is not
\* modified by the trial.
C13_WithinPartitionShuffle ==
    Tried =>
       /\ SameButColumn(imp.X_permuted, imp.X0, TrialColumn)
       /\ PermutedWithin(imp.X_permuted, imp.X0, TrialColumn)
       /\ imp.X = imp.X0

\* What does hold: the permuted table is such a shuffle of X as the trial
\* found it, and of the input table when the partitions of X are made anew
\* by every computation, and X is then not modified.
ShuffleOfTableFound ==
    Tried =>
       /\ SameButColumn(imp.X_permuted, imp.X_before, TrialColumn)
       /\ PermutedWithin(imp.X_permuted, imp.X_before, TrialColumn)
       /\ ~imp.X0.held =>
             /\ SameButColumn(imp.X_permuted, imp.X0, TrialColumn)
             /\ PermutedWithin(imp.X_permuted, imp.X0, TrialColumn)
             /\ imp.X = imp.X0

====
